---- MODULE Spec2Model ----
(***************************************************************************)
(* Periodic context gathering of CGCM 2.0.                                 *)
(*                                                                         *)
(* Two schedulers are modelled, each from its own source:                  *)
(*   - the stand-alone node script scripts/periodic-context-gather.js      *)
(*     (class PeriodicContextGatherer, and main, its command line), and    *)
(*   - the React hook usePeriodicContextGather, mounted by ChatPage and    *)
(*     driven by the reducer state of AppContext.                          *)
(*                                                                         *)
(* JavaScript runs every handler to its first await without interruption, *)
(* so one action of the model is one such synchronous segment: a call of   *)
(* start/stop, one firing of a timer, the resumption of gatherContext when *)
(* its request settles, one dispatch with the render and effects that      *)
(* follow it.  Time is discrete; one unit is MsPerUnit milliseconds.       *)
(***************************************************************************)
EXTENDS Integers, Sequences, FiniteSets, Bags, TLC

VARIABLES
    now,              \* wall clock, in units of MsPerUnit
    \* ---- node process running PeriodicContextGatherer ----
    codebasePath,     \* this.codebasePath
    intervalMinutes,  \* this.intervalMinutes
    intervalId,       \* this.intervalId (NULL or the id setInterval returned)
    isRunning,        \* this.isRunning
    timers,           \* interval timers armed in the node runtime
    pending,          \* POST /context-gather requests awaiting settlement
    invocations,      \* number of POSTs the process has issued
    console,          \* lines written to the console by the last handler
    exited,           \* process.exit has been called
    argv,             \* process.argv.slice(2) of a run of the file itself
    exitCode,         \* the status handed to process.exit, NoExit before
    constructed,      \* a PeriodicContextGatherer instance exists
    begun,            \* times at which the process run by main began invocations
    peer,             \* fields of a second PeriodicContextGatherer of the same process
    \* ---- browser running the React application ----
    state,            \* reducer state of AppProvider
    route,            \* location.pathname; ChatPage is mounted on "/chat"
    intervalRef,      \* intervalRef.current of the mounted hook
    isRunningRef,     \* isRunningRef.current of the mounted hook
    htimers,          \* interval timers armed in the browser
    navTimers,        \* pending setTimeout(() => navigate('/chat'), 1500)
    hpending,         \* bag of POST /context-gather requests awaiting settlement
    hconsole,         \* lines written to the console by the last handler
    statusIndicator,  \* what the status indicator of ChatPage shows
    isSubmitting,     \* ChatPage: isSubmitting of the mounted instance
    synced,           \* history: targets whose one-shot synchronization answered 200
    program           \* which of the two programs this run executes

\* what only main and the exit handler touch
cvars == <<argv, exitCode, constructed>>

gvars == <<codebasePath, intervalMinutes, intervalId, isRunning, timers,
           pending, invocations, console, exited, cvars, begun, peer>>

avars == <<state, route, intervalRef, isRunningRef, htimers, navTimers,
           hpending, hconsole, statusIndicator, isSubmitting, synced>>

vars == <<now, program, gvars, avars>>

----------------------------------------------------------------------------
(* Bounds of the model *)

MaxTime == 7
MaxIntervalMinutes == 2
MaxInvocations == 4
MaxPending == 2
MaxHistory == 4

----------------------------------------------------------------------------
(* Constants of the program *)

\* null: no timer id; every id setInterval returns is truthy
NULL == 0

MsPerUnit == 60 * 1000

DEFAULT_INTERVAL_MINUTES == 3

AxiosTimeoutMs == 300000

TimeoutUnits == AxiosTimeoutMs \div MsPerUnit

\* this.intervalMs = intervalMinutes * 60 * 1000, in model units
intervalMs(minutes) == (minutes * 60 * 1000) \div MsPerUnit

GathererPaths == {"", "/repo"}

Routes == {"/", "/setup", "/chat"}

\* How a POST can settle.  "timeout" is axios' own timeout rejection;
\* "okNull" is a 2xx answer whose body is the JSON value null.
Outcomes == {"ok200", "okOther", "okNull", "httpError", "noResponse", "timeout",
             "setupError"}

----------------------------------------------------------------------------
(* The runtime's interval timers *)

\* setInterval returns an id that is truthy and differs from every armed one
FreshTimerId(ts) == CHOOSE i \in 1..(Cardinality(ts) + 1) : \A t \in ts : t.id # i

\* cb stands for the callback: what its closure has captured
setInterval(ts, period, cb) ==
    [id |-> FreshTimerId(ts), armedAt |-> now, due |-> now + period,
     period |-> period, cb |-> cb]

clearInterval(ts, id) == {t \in ts : t.id # id}

\* a timer that stays due after it has fired
Rearm_stuck(ts, t) == ts

\* a timer that misses a beat: re-armed two periods later
Rearm_late(ts, t) == (ts \ {t}) \cup {[t EXCEPT !.due = t.due + 2 * t.period]}

\* the timer has fired: it is re-armed one period later
Rearm(ts, t) == (ts \ {t}) \cup {[t EXCEPT !.due = t.due + t.period]}

RemoveAt(s, i) == [j \in 1..(Len(s) - 1) |-> IF j < i THEN s[j] ELSE s[j + 1]]

----------------------------------------------------------------------------
(* PeriodicContextGatherer *)

\* gatherContext without its in-progress guard
Gatherer_gatherContext_noGuard ==
    [isRunning |-> TRUE,
     pending |-> Append(pending, [sentAt |-> now, target |-> codebasePath]),
     invocations |-> invocations + 1,
     out |-> <<"starting">>]

\* gatherContext that returns silently when an invocation is in progress
Gatherer_gatherContext_silentSkip ==
    IF isRunning
    THEN [isRunning |-> isRunning, pending |-> pending, invocations |-> invocations,
          out |-> <<>>]
    ELSE [isRunning |-> TRUE,
          pending |-> Append(pending, [sentAt |-> now, target |-> codebasePath]),
          invocations |-> invocations + 1,
          out |-> <<"starting">>]

\* gatherContext up to its await: the in-progress guard, the flag, the POST
Gatherer_gatherContext ==
    IF isRunning
    THEN [isRunning |-> isRunning, pending |-> pending, invocations |-> invocations,
          out |-> <<"skipping">>]
    ELSE [isRunning |-> TRUE,
          pending |-> Append(pending, [sentAt |-> now, target |-> codebasePath]),
          invocations |-> invocations + 1,
          out |-> <<"starting">>]

\* what gatherContext prints once the POST has settled with outcome o
Gatherer_report(o) ==
    CASE o = "ok200" -> <<"success">>
      [] o \in {"okOther", "okNull"} -> <<"warnings">>
      [] o = "httpError" -> <<"failed", "status">>
      [] o \in {"noResponse", "timeout"} -> <<"failed", "network">>
      [] OTHER -> <<"failed", "error">>

\* the programs that run in node: the class driven by a caller that has
\* imported it, and the file executed directly (main)
NodePrograms == {"script", "cli"}

\* main opens the list of the times at which its process begins
\* invocations; a call of gatherContext that returned r extends it
Record(r) ==
    IF begun # <<>> /\ r.invocations > invocations
    THEN Append(begun, now) ELSE begun

\* a step may issue a request only below the cap on invocations
CanInvoke == isRunning \/ invocations < MaxInvocations

\* gatherer.gatherContext() called directly
Gatherer_manualGather ==
    /\ program = "script"
    /\ ~exited
    /\ CanInvoke
    /\ LET r == Gatherer_gatherContext
       IN /\ isRunning' = r.isRunning
          /\ pending' = r.pending
          /\ invocations' = r.invocations
          /\ console' = r.out
    /\ UNCHANGED <<program, avars, cvars, peer, begun, now, codebasePath, intervalMinutes, intervalId, timers, exited>>

\* the interval timer t fires and calls gatherContext
Gatherer_tick(t) ==
    /\ program \in NodePrograms
    /\ ~exited
    /\ CanInvoke
    /\ t \in timers
    /\ t.cb = "gatherContext"
    /\ t.due = now
    /\ LET r == Gatherer_gatherContext
       IN /\ isRunning' = r.isRunning
          /\ pending' = r.pending
          /\ invocations' = r.invocations
          /\ console' = r.out
          /\ begun' = Record(r)
    /\ timers' = Rearm(timers, t)
    /\ UNCHANGED <<program, avars, cvars, peer, now, codebasePath, intervalMinutes, intervalId, exited>>

\* gatherContext that releases the flag on the success path only
Gatherer_settle_noFinally(i, o) ==
    /\ program \in NodePrograms
    /\ ~exited
    /\ i \in 1..Len(pending)
    /\ now <= pending[i].sentAt + TimeoutUnits
    /\ (o = "timeout") => (now = pending[i].sentAt + TimeoutUnits)
    /\ console' = Gatherer_report(o)
    /\ isRunning' = (o \notin {"ok200", "okOther", "okNull"})
    /\ pending' = RemoveAt(pending, i)
    /\ UNCHANGED <<program, avars, cvars, peer, now, begun, codebasePath, intervalMinutes, intervalId,
                   timers, invocations, exited>>

\* a completion that makes up for a tick by invoking again at once
Gatherer_settle_catchUp(i, o) ==
    /\ program \in NodePrograms
    /\ ~exited
    /\ i \in 1..Len(pending)
    /\ invocations < MaxInvocations
    /\ now <= pending[i].sentAt + TimeoutUnits
    /\ (o = "timeout") => (now = pending[i].sentAt + TimeoutUnits)
    /\ console' = Gatherer_report(o) \o <<"starting">>
    /\ isRunning' = TRUE
    /\ pending' = Append(RemoveAt(pending, i), [sentAt |-> now, target |-> codebasePath])
    /\ invocations' = invocations + 1
    /\ begun' = IF begun # <<>> THEN Append(begun, now) ELSE begun
    /\ UNCHANGED <<program, avars, cvars, peer, now, codebasePath, intervalMinutes, intervalId,
                   timers, exited>>

\* the POST at position i settles with outcome o; gatherContext resumes,
\* reports and releases the flag in its finally block
Gatherer_settle(i, o) ==
    /\ program \in NodePrograms
    /\ ~exited
    /\ i \in 1..Len(pending)
    /\ pending[i].target = codebasePath
    /\ now <= pending[i].sentAt + TimeoutUnits
    /\ (o = "timeout") => (now = pending[i].sentAt + TimeoutUnits)
    /\ console' = Gatherer_report(o)
    /\ isRunning' = FALSE
    /\ pending' = RemoveAt(pending, i)
    /\ UNCHANGED <<program, avars, cvars, peer, now, begun, codebasePath, intervalMinutes, intervalId, timers,
                   invocations, exited>>

\* start() without its already-running check
Gatherer_start_noGuard ==
    /\ program = "script"
    /\ ~exited
    /\ CanInvoke
    /\ LET r == Gatherer_gatherContext
           t == setInterval(timers, intervalMs(intervalMinutes), "gatherContext")
       IN /\ isRunning' = r.isRunning
          /\ pending' = r.pending
          /\ invocations' = r.invocations
          /\ console' = <<"banner">> \o r.out
          /\ intervalId' = t.id
          /\ timers' = timers \cup {t}
    /\ UNCHANGED <<program, avars, cvars, peer, begun, now, codebasePath, intervalMinutes, exited>>

\* start() that only arms the timer
Gatherer_start_noImmediate ==
    /\ program = "script"
    /\ ~exited
    /\ IF intervalId # NULL
       THEN /\ console' = <<"already running">>
            /\ UNCHANGED <<intervalId, timers>>
       ELSE LET t == setInterval(timers, intervalMs(intervalMinutes), "gatherContext")
            IN /\ console' = <<"banner">>
               /\ intervalId' = t.id
               /\ timers' = timers \cup {t}
    /\ UNCHANGED <<program, avars, cvars, peer, begun, now, codebasePath, intervalMinutes, exited,
                   isRunning, pending, invocations>>

\* start() whose immediate invocation bypasses the in-progress guard
Gatherer_start_forced ==
    /\ program = "script"
    /\ ~exited
    /\ IF intervalId # NULL
       THEN /\ console' = <<"already running">>
            /\ UNCHANGED <<isRunning, pending, invocations, intervalId, timers>>
       ELSE /\ invocations < MaxInvocations
            /\ LET r == Gatherer_gatherContext_noGuard
                   t == setInterval(timers, intervalMs(intervalMinutes), "gatherContext")
               IN /\ isRunning' = r.isRunning
                  /\ pending' = r.pending
                  /\ invocations' = r.invocations
                  /\ console' = <<"banner">> \o r.out
                  /\ intervalId' = t.id
                  /\ timers' = timers \cup {t}
    /\ UNCHANGED <<program, avars, cvars, peer, begun, now, codebasePath, intervalMinutes, exited>>

Gatherer_start ==
    /\ program = "script"
    /\ ~exited
    /\ IF intervalId # NULL
       THEN /\ console' = <<"already running">>
            /\ UNCHANGED <<isRunning, pending, invocations, intervalId, timers>>
       ELSE /\ CanInvoke
            /\ LET r == Gatherer_gatherContext
                   t == setInterval(timers, intervalMs(intervalMinutes), "gatherContext")
               IN /\ isRunning' = r.isRunning
                  /\ pending' = r.pending
                  /\ invocations' = r.invocations
                  /\ console' = <<"banner">> \o r.out
                  /\ intervalId' = t.id
                  /\ timers' = timers \cup {t}
    /\ UNCHANGED <<program, avars, cvars, peer, begun, now, codebasePath, intervalMinutes, exited>>

\* stop() that forgets the handle without clearing the timer
Gatherer_stopEffect_noClear ==
    IF intervalId # NULL
    THEN [timers |-> timers, intervalId |-> NULL, out |-> <<"stopped">>]
    ELSE [timers |-> timers, intervalId |-> intervalId, out |-> <<>>]

\* stop() that reports whether or not a timer was armed
Gatherer_stopEffect_alwaysLogs ==
    IF intervalId # NULL
    THEN [timers |-> clearInterval(timers, intervalId), intervalId |-> NULL,
          out |-> <<"stopped">>]
    ELSE [timers |-> timers, intervalId |-> intervalId, out |-> <<"stopped">>]

\* stop() as a function of the state: the timers and intervalId it leaves
Gatherer_stopEffect ==
    IF intervalId # NULL
    THEN [timers |-> clearInterval(timers, intervalId), intervalId |-> NULL,
          out |-> <<"stopped">>]
    ELSE [timers |-> timers, intervalId |-> intervalId, out |-> <<>>]

\* stop() that also aborts the request in flight
Gatherer_stop_abort ==
    /\ program = "script"
    /\ ~exited
    /\ LET r == Gatherer_stopEffect
       IN /\ timers' = r.timers
          /\ intervalId' = r.intervalId
          /\ console' = r.out
    /\ pending' = <<>>
    /\ isRunning' = FALSE
    /\ UNCHANGED <<program, avars, cvars, peer, begun, now, codebasePath, intervalMinutes, invocations, exited>>

Gatherer_stop ==
    /\ program = "script"
    /\ ~exited
    /\ LET r == Gatherer_stopEffect
       IN /\ timers' = r.timers
          /\ intervalId' = r.intervalId
          /\ console' = r.out
    /\ UNCHANGED <<program, avars, cvars, peer, begun, now, codebasePath, intervalMinutes, isRunning, pending,
                   invocations, exited>>

\* handleExit that leaves the process without calling stop()
Gatherer_handleExit_noStop ==
    /\ program \in NodePrograms
    /\ constructed
    /\ ~exited
    /\ console' = <<"shutting down">>
    /\ exited' = TRUE
    /\ exitCode' = 0
    /\ UNCHANGED <<program, avars, peer, argv, constructed, begun, now, codebasePath, intervalMinutes, isRunning, pending, invocations, timers, intervalId>>

\* SIGINT / SIGTERM: stop(), then process.exit(0)
Gatherer_handleExit ==
    /\ program \in NodePrograms
    /\ constructed
    /\ ~exited
    /\ LET r == Gatherer_stopEffect
       IN /\ timers' = r.timers
          /\ intervalId' = r.intervalId
          /\ console' = <<"shutting down">> \o r.out
    /\ exited' = TRUE
    /\ exitCode' = 0
    /\ UNCHANGED <<program, avars, peer, argv, constructed, begun, now, codebasePath, intervalMinutes, isRunning, pending, invocations>>

----------------------------------------------------------------------------
(* A second instance of PeriodicContextGatherer in the same process.  Its    *)
(* methods are those of the class, run with this bound to the second         *)
(* instance: they read and write its fields, and share with the first        *)
(* instance the timers, the requests and the console of the node runtime.    *)

PeerPath == "/other"

\* new PeriodicContextGatherer(PeerPath): the interval takes its default
PeerInit ==
    [codebasePath |-> PeerPath, intervalMinutes |-> DEFAULT_INTERVAL_MINUTES,
     intervalId |-> NULL, isRunning |-> FALSE]

\* gatherContext that consults the flag of the other instance
Peer_gatherContext_sharedFlag ==
    IF peer.isRunning \/ isRunning
    THEN [isRunning |-> peer.isRunning, pending |-> pending, invocations |-> invocations,
          out |-> <<"skipping">>]
    ELSE [isRunning |-> TRUE,
          pending |-> Append(pending, [sentAt |-> now, target |-> peer.codebasePath]),
          invocations |-> invocations + 1,
          out |-> <<"starting">>]

Peer_gatherContext ==
    IF peer.isRunning
    THEN [isRunning |-> peer.isRunning, pending |-> pending, invocations |-> invocations,
          out |-> <<"skipping">>]
    ELSE [isRunning |-> TRUE,
          pending |-> Append(pending, [sentAt |-> now, target |-> peer.codebasePath]),
          invocations |-> invocations + 1,
          out |-> <<"starting">>]

Peer_CanInvoke == peer.isRunning \/ invocations < MaxInvocations

Peer_start ==
    /\ program = "script"
    /\ ~exited
    /\ IF peer.intervalId # NULL
       THEN /\ console' = <<"already running">>
            /\ UNCHANGED <<peer, pending, invocations, timers>>
       ELSE /\ Peer_CanInvoke
            /\ LET r == Peer_gatherContext
                   t == setInterval(timers, intervalMs(peer.intervalMinutes),
                                    "peer.gatherContext")
               IN /\ peer' = [peer EXCEPT !.isRunning = r.isRunning, !.intervalId = t.id]
                  /\ pending' = r.pending
                  /\ invocations' = r.invocations
                  /\ console' = <<"banner">> \o r.out
                  /\ timers' = timers \cup {t}
    /\ UNCHANGED <<program, avars, cvars, begun, now, codebasePath, intervalMinutes, exited,
                   isRunning, intervalId>>

Peer_stop ==
    /\ program = "script"
    /\ ~exited
    /\ IF peer.intervalId # NULL
       THEN /\ timers' = clearInterval(timers, peer.intervalId)
            /\ peer' = [peer EXCEPT !.intervalId = NULL]
            /\ console' = <<"stopped">>
       ELSE /\ console' = <<>>
            /\ UNCHANGED <<timers, peer>>
    /\ UNCHANGED <<program, avars, cvars, begun, now, codebasePath, intervalMinutes, exited,
                   isRunning, intervalId, pending, invocations>>

Peer_tick(t) ==
    /\ program = "script"
    /\ ~exited
    /\ Peer_CanInvoke
    /\ t \in timers
    /\ t.cb = "peer.gatherContext"
    /\ t.due = now
    /\ LET r == Peer_gatherContext
       IN /\ peer' = [peer EXCEPT !.isRunning = r.isRunning]
          /\ pending' = r.pending
          /\ invocations' = r.invocations
          /\ console' = r.out
    /\ timers' = Rearm(timers, t)
    /\ UNCHANGED <<program, avars, cvars, begun, now, codebasePath, intervalMinutes, exited,
                   isRunning, intervalId>>

Peer_settle(i, o) ==
    /\ program = "script"
    /\ ~exited
    /\ i \in 1..Len(pending)
    /\ pending[i].target = peer.codebasePath
    /\ now <= pending[i].sentAt + TimeoutUnits
    /\ (o = "timeout") => (now = pending[i].sentAt + TimeoutUnits)
    /\ console' = Gatherer_report(o)
    /\ peer' = [peer EXCEPT !.isRunning = FALSE]
    /\ pending' = RemoveAt(pending, i)
    /\ UNCHANGED <<program, avars, cvars, begun, now, codebasePath, intervalMinutes, exited,
                   isRunning, intervalId, timers, invocations>>

----------------------------------------------------------------------------
(* main: the command line of scripts/periodic-context-gather.js *)

\* process.exit has not been called
NoExit == -1

\* the words a command line is made of
Tokens == {"/repo", "", "--help", "0", "-1", "1"}

\* the characters of each word
Chars ==
    [w \in Tokens |->
        CASE w = "/repo" -> <<"/", "r", "e", "p", "o">>
          [] w = "" -> <<>>
          [] w = "--help" -> <<"-", "-", "h", "e", "l", "p">>
          [] w = "0" -> <<"0">>
          [] w = "-1" -> <<"-", "1">>
          [] w = "1" -> <<"1">>]

DigitValue ==
    [c \in {"0", "1", "2", "3", "4", "5", "6", "7", "8", "9"} |->
        CASE c = "0" -> 0 [] c = "1" -> 1 [] c = "2" -> 2 [] c = "3" -> 3
          [] c = "4" -> 4 [] c = "5" -> 5 [] c = "6" -> 6 [] c = "7" -> 7
          [] c = "8" -> 8 [] c = "9" -> 9]

\* the value of the longest run of decimal digits of cs that starts at i
RECURSIVE LeadingDigits(_, _, _)
LeadingDigits(cs, i, acc) ==
    IF i > Len(cs) \/ cs[i] \notin DOMAIN DigitValue
    THEN acc
    ELSE LeadingDigits(cs, i + 1, 10 * acc + DigitValue[cs[i]])

\* parseInt of the argument at position k: an optional sign, then the leading
\* digits; NaN when there is no such argument or it has no leading digit
parseInt(args, k) ==
    IF k > Len(args) THEN [nan |-> TRUE, val |-> 0]
    ELSE LET cs == Chars[args[k]]
             signed == Len(cs) >= 1 /\ cs[1] \in {"-", "+"}
             first == IF signed THEN 2 ELSE 1
         IN IF first > Len(cs) \/ cs[first] \notin DOMAIN DigitValue
            THEN [nan |-> TRUE, val |-> 0]
            ELSE [nan |-> FALSE,
                  val |-> (IF signed /\ cs[1] = "-" THEN -1 ELSE 1)
                            * LeadingDigits(cs, first, 0)]

\* parseInt(args[1]) || DEFAULT_INTERVAL_MINUTES: NaN and 0 are falsy
Main_intervalMinutes(args) ==
    LET n == parseInt(args, 2)
    IN IF n.nan \/ n.val = 0 THEN DEFAULT_INTERVAL_MINUTES ELSE n.val

\* args.includes('--help') || args.includes('-h')
Main_wantsHelp(args) == \E k \in 1..Len(args) : args[k] \in {"--help", "-h"}

\* main that starts a gatherer without checking for the path
Main_noPath_unchecked(args) == FALSE

\* !codebasePath: args[0] is undefined or the empty string
Main_noPath(args) == Len(args) = 0 \/ args[1] = ""

\* main(): usage, or an error and exit status 1, or a gatherer constructed
\* from the arguments and started
main ==
    /\ program = "cli"
    /\ ~constructed
    /\ ~exited
    /\ LET im == Main_intervalMinutes(argv)
       IN IF Main_wantsHelp(argv) \/ Main_noPath(argv) \/ im < 1
          THEN /\ console' = (IF Main_wantsHelp(argv) THEN <<"usage">>
                              ELSE IF Main_noPath(argv) THEN <<"error: path required">>
                              ELSE <<"error: interval">>)
               /\ exitCode' = IF Main_wantsHelp(argv) THEN 0 ELSE 1
               /\ exited' = TRUE
               /\ UNCHANGED <<constructed, codebasePath, intervalMinutes, intervalId,
                              isRunning, timers, pending, invocations, begun>>
          ELSE \* new PeriodicContextGatherer(codebasePath, intervalMinutes).start()
               LET cp == IF Len(argv) = 0 THEN "" ELSE argv[1]
                   t == setInterval(timers, intervalMs(im), "gatherContext")
               IN /\ constructed' = TRUE
                  /\ codebasePath' = cp
                  /\ intervalMinutes' = im
                  /\ isRunning' = TRUE
                  /\ pending' = <<[sentAt |-> now, target |-> cp]>>
                  /\ invocations' = 1
                  /\ begun' = <<now>>
                  /\ console' = <<"banner", "starting">>
                  /\ intervalId' = t.id
                  /\ timers' = {t}
                  /\ UNCHANGED <<exitCode, exited>>
    /\ UNCHANGED <<program, avars, peer, argv, now>>

----------------------------------------------------------------------------
(* The React application: AppContext reducer *)

NoError == "null"

initialState ==
    [theme |-> "light", codebasePath |-> "", isContextGathered |-> FALSE,
     isLoading |-> FALSE, error |-> NoError, chatHistory |-> <<>>]

\* (a reducer whose RESET_STATE forgets the theme as well)
appReducer_resetAll(st, a) ==
    CASE a.type = "SET_THEME" -> [st EXCEPT !.theme = a.payload]
      [] a.type = "SET_CODEBASE_PATH" -> [st EXCEPT !.codebasePath = a.payload]
      [] a.type = "SET_CONTEXT_GATHERED" -> [st EXCEPT !.isContextGathered = a.payload]
      [] a.type = "SET_LOADING" -> [st EXCEPT !.isLoading = a.payload]
      [] a.type = "SET_ERROR" -> [st EXCEPT !.error = a.payload]
      [] a.type = "ADD_CHAT_MESSAGE" -> [st EXCEPT !.chatHistory = Append(st.chatHistory, a.payload)]
      [] a.type = "CLEAR_CHAT_HISTORY" -> [st EXCEPT !.chatHistory = <<>>]
      [] a.type = "RESET_STATE" -> initialState
      [] OTHER -> st

appReducer(st, a) ==
    CASE a.type = "SET_THEME" -> [st EXCEPT !.theme = a.payload]
      [] a.type = "SET_CODEBASE_PATH" -> [st EXCEPT !.codebasePath = a.payload]
      [] a.type = "SET_CONTEXT_GATHERED" -> [st EXCEPT !.isContextGathered = a.payload]
      [] a.type = "SET_LOADING" -> [st EXCEPT !.isLoading = a.payload]
      [] a.type = "SET_ERROR" -> [st EXCEPT !.error = a.payload]
      [] a.type = "ADD_CHAT_MESSAGE" -> [st EXCEPT !.chatHistory = Append(st.chatHistory, a.payload)]
      [] a.type = "CLEAR_CHAT_HISTORY" -> [st EXCEPT !.chatHistory = <<>>]
      [] a.type = "RESET_STATE" -> [initialState EXCEPT !.theme = st.theme]
      [] OTHER -> st

\* the dispatches of one handler, applied in order
RECURSIVE Dispatch(_, _)
Dispatch(st, as) ==
    IF as = <<>> THEN st ELSE Dispatch(appReducer(st, Head(as)), Tail(as))

Act(type, payload) == [type |-> type, payload |-> payload]

----------------------------------------------------------------------------
(* contextService and the hook usePeriodicContextGather *)

\* contextService.gatherContext: response.data of a 2xx answer, or rethrow
contextService_gatherContext(o) ==
    CASE o = "ok200" -> [threw |-> FALSE, data |-> TRUE, statuscode |-> 200]
      [] o = "okOther" -> [threw |-> FALSE, data |-> TRUE, statuscode |-> 500]
      [] o = "okNull" -> [threw |-> FALSE, data |-> FALSE, statuscode |-> 0]
      [] OTHER -> [threw |-> TRUE, data |-> FALSE, statuscode |-> 0]

CONTEXT_GATHER_INTERVAL == (3 * 60 * 1000) \div MsPerUnit

\* gatherContext guarded by one flag for all instances of the hook: a request
\* of an unmounted instance keeps it set
Hook_gatherContext_sharedGuard(cp) ==
    IF cp = "" \/ isRunningRef
          \/ \E q \in BagToSet(hpending) : q.kind = "periodic"
    THEN [isRunningRef |-> isRunningRef, hpending |-> hpending, out |-> <<>>]
    ELSE [isRunningRef |-> TRUE,
          hpending |-> hpending (+) SetToBag({[target |-> cp, kind |-> "periodic",
                                               live |-> TRUE]}),
          out |-> <<"starting">>]

\* the hook's gatherContext up to its await; cp is the state.codebasePath
\* captured by the closure that is called
Hook_gatherContext(cp) ==
    IF cp = "" \/ isRunningRef
    THEN [isRunningRef |-> isRunningRef, hpending |-> hpending, out |-> <<>>]
    ELSE [isRunningRef |-> TRUE,
          hpending |-> hpending (+) SetToBag({[target |-> cp, kind |-> "periodic",
                                               live |-> TRUE]}),
          out |-> <<"starting">>]

\* what the hook prints once contextService.gatherContext has settled
\* (reading response.statuscode of a null body raises inside the try block)
Hook_report(res) == IF res.threw \/ ~res.data THEN <<"failed">> ELSE <<"completed">>

\* startPeriodicGathering whose timer fires at once instead of one interval later
Hook_startPeriodicGathering_noDelay(ref, ts, st) ==
    IF ref # NULL \/ st.codebasePath = ""
    THEN [ref |-> ref, timers |-> ts, out |-> <<>>]
    ELSE LET t == [setInterval(ts, CONTEXT_GATHER_INTERVAL, st.codebasePath)
                       EXCEPT !.due = now]
         IN [ref |-> t.id, timers |-> ts \cup {t}, out |-> <<"every 3 minutes">>]

Hook_startPeriodicGathering(ref, ts, st) ==
    IF ref # NULL \/ st.codebasePath = ""
    THEN [ref |-> ref, timers |-> ts, out |-> <<>>]
    ELSE LET t == setInterval(ts, CONTEXT_GATHER_INTERVAL, st.codebasePath)
         IN [ref |-> t.id, timers |-> ts \cup {t}, out |-> <<"every 3 minutes">>]

\* stopPeriodicGathering that forgets the handle without clearing the timer
Hook_stopPeriodicGathering_noClear(ref, ts) ==
    IF ref # NULL
    THEN [ref |-> NULL, timers |-> ts, out |-> <<"stopping">>]
    ELSE [ref |-> ref, timers |-> ts, out |-> <<>>]

Hook_stopPeriodicGathering(ref, ts) ==
    IF ref # NULL
    THEN [ref |-> NULL, timers |-> clearInterval(ts, ref), out |-> <<"stopping">>]
    ELSE [ref |-> ref, timers |-> ts, out |-> <<>>]

\* a start/stop effect that does not wait for the one-shot synchronization
Hook_effectBody_pathOnly(ref, ts, st) ==
    IF st.codebasePath # ""
    THEN Hook_startPeriodicGathering(ref, ts, st)
    ELSE Hook_stopPeriodicGathering(ref, ts)

\* body of the start/stop effect
Hook_effectBody(ref, ts, st) ==
    IF st.isContextGathered /\ st.codebasePath # ""
    THEN Hook_startPeriodicGathering(ref, ts, st)
    ELSE Hook_stopPeriodicGathering(ref, ts)

\* cleanups of both effects (each calls stopPeriodicGathering)
Hook_effectCleanup(ref, ts) ==
    LET c1 == Hook_stopPeriodicGathering(ref, ts)
        c2 == Hook_stopPeriodicGathering(c1.ref, c1.timers)
    IN [ref |-> c2.ref, timers |-> c2.timers, out |-> c1.out \o c2.out]

\* The component tree after a handler has left reducer state st2 and route
\* r2.  Every dispatch re-renders AppProvider, which builds a new actions
\* object, so the hook's callbacks change and its effects run again:
\* cleanups first, then the bodies.  Leaving "/chat" unmounts the hook,
\* entering it mounts a fresh one.
Render(st2, r2, dispatched) ==
    CASE route = "/chat" /\ r2 = "/chat" ->
           IF dispatched
           THEN LET c == Hook_effectCleanup(intervalRef, htimers)
                    b == Hook_effectBody(c.ref, c.timers, st2)
                IN [ref |-> b.ref, timers |-> b.timers, out |-> c.out \o b.out,
                    running |-> isRunningRef, unmounted |-> FALSE]
           ELSE [ref |-> intervalRef, timers |-> htimers, out |-> <<>>,
                 running |-> isRunningRef, unmounted |-> FALSE]
      [] route = "/chat" /\ r2 # "/chat" ->
           LET c == Hook_effectCleanup(intervalRef, htimers)
           IN [ref |-> NULL, timers |-> c.timers, out |-> c.out,
               running |-> FALSE, unmounted |-> TRUE]
      [] route # "/chat" /\ r2 = "/chat" ->
           LET b == Hook_effectBody(NULL, htimers, st2)
           IN [ref |-> b.ref, timers |-> b.timers, out |-> b.out,
               running |-> FALSE, unmounted |-> FALSE]
      [] OTHER ->
           [ref |-> intervalRef, timers |-> htimers, out |-> <<>>,
            running |-> isRunningRef, unmounted |-> FALSE]

\* the status indicator of ChatPage: the text is rendered while
\* isPeriodicGatheringActive is true
NotRecorded == "not recorded"

StatusIndicator(isPeriodicGatheringActive) ==
    IF isPeriodicGatheringActive THEN "Auto-sync active" ELSE "none"

\* What the indicator shows after the same handler, in the runs that record
\* it.  The hook returns !!intervalRef.current, read while rendering, that
\* is before the effects of that render run; a change of the ref does not
\* render again.  A hook that has just mounted has rendered with its fresh
\* ref; off "/chat" nothing is shown.
Rendered(r2, dispatched) ==
    IF statusIndicator = NotRecorded THEN NotRecorded
    ELSE CASE route = "/chat" /\ r2 = "/chat" ->
                IF dispatched THEN StatusIndicator(intervalRef # NULL)
                              ELSE statusIndicator
           [] OTHER -> StatusIndicator(FALSE)

\* requests issued by a hook instance that has been unmounted
Orphan(reqs) ==
    LET dead(r) == [r EXCEPT !.live = FALSE]
        alive(r) == [r EXCEPT !.live = TRUE]
    IN [r \in {dead(q) : q \in BagToSet(reqs)} |->
            CopiesIn(r, reqs) + CopiesIn(alive(r), reqs)]

\* a handler may start a request only below the cap on the asynchronous
\* operations (requests and timeouts) outstanding in the browser
CanIssue == BagCardinality(hpending) + navTimers < MaxPending

\* the interval timer t of the browser fires and calls its gatherContext
Hook_tick(t) ==
    /\ program = "app"
    /\ t \in htimers
    /\ t.due = now
    /\ isRunningRef \/ CanIssue
    /\ LET r == Hook_gatherContext(t.cb)
       IN /\ isRunningRef' = r.isRunningRef
          /\ hpending' = r.hpending
          /\ hconsole' = r.out
    /\ htimers' = Rearm(htimers, t)
    /\ UNCHANGED <<program, gvars, synced, now, state, route, statusIndicator, isSubmitting,
                   intervalRef, navTimers>>

\* a hook whose gatherContext resets its flag at the end of the try block
Hook_settle_noFinally(q, o) ==
    /\ program = "app"
    /\ BagIn(q, hpending)
    /\ q.kind = "periodic"
    /\ LET res == contextService_gatherContext(o)
           ok == ~res.threw /\ res.statuscode = 200
           st2 == IF ok THEN appReducer(state, Act("SET_CONTEXT_GATHERED", TRUE))
                        ELSE state
           v == Render(st2, route, ok)
       IN /\ state' = st2
          /\ intervalRef' = v.ref
          /\ htimers' = v.timers
          /\ isRunningRef' = IF q.live /\ Hook_report(res) = <<"completed">>
                              THEN FALSE ELSE v.running
          /\ hconsole' = Hook_report(res) \o v.out
          /\ statusIndicator' = Rendered(route, ok)
          /\ isSubmitting' = isSubmitting
    /\ hpending' = hpending (-) SetToBag({q})
    /\ UNCHANGED <<program, gvars, synced, now, route, navTimers>>

\* a hook that surfaces a failed periodic invocation as the page's error
Hook_settle_setsError(q, o) ==
    /\ program = "app"
    /\ BagIn(q, hpending)
    /\ q.kind = "periodic"
    /\ LET res == contextService_gatherContext(o)
           ok == ~res.threw /\ res.statuscode = 200
           st2 == IF ok THEN appReducer(state, Act("SET_CONTEXT_GATHERED", TRUE))
                        ELSE appReducer(state, Act("SET_ERROR", "Failed to gather context"))
           v == Render(st2, route, TRUE)
       IN /\ state' = st2
          /\ intervalRef' = v.ref
          /\ htimers' = v.timers
          /\ isRunningRef' = IF q.live THEN FALSE ELSE v.running
          /\ hconsole' = Hook_report(res) \o v.out
          /\ statusIndicator' = Rendered(route, TRUE)
          /\ isSubmitting' = isSubmitting
    /\ hpending' = hpending (-) SetToBag({q})
    /\ UNCHANGED <<program, gvars, synced, now, route, navTimers>>

\* the periodic POST q settles with outcome o
Hook_settle(q, o) ==
    /\ program = "app"
    /\ BagIn(q, hpending)
    /\ q.kind = "periodic"
    /\ LET res == contextService_gatherContext(o)
           ok == ~res.threw /\ res.statuscode = 200
           st2 == IF ok THEN appReducer(state, Act("SET_CONTEXT_GATHERED", TRUE))
                        ELSE state
           v == Render(st2, route, ok)
       IN /\ state' = st2
          /\ intervalRef' = v.ref
          /\ htimers' = v.timers
          /\ isRunningRef' = IF q.live THEN FALSE ELSE v.running
          /\ hconsole' = Hook_report(res) \o v.out
          /\ statusIndicator' = Rendered(route, ok)
          /\ isSubmitting' = isSubmitting
    /\ hpending' = hpending (-) SetToBag({q})
    /\ UNCHANGED <<program, gvars, synced, now, route, navTimers>>

\* the functions the hook returns, called by its consumer
Hook_callGather ==
    /\ program = "app"
    /\ route = "/chat"
    /\ isRunningRef \/ CanIssue
    /\ LET r == Hook_gatherContext(state.codebasePath)
       IN /\ isRunningRef' = r.isRunningRef
          /\ hpending' = r.hpending
          /\ hconsole' = r.out
    /\ UNCHANGED <<program, gvars, synced, now, state, route, statusIndicator, isSubmitting,
                   intervalRef, htimers, navTimers>>

Hook_callStart ==
    /\ program = "app"
    /\ route = "/chat"
    /\ LET r == Hook_startPeriodicGathering(intervalRef, htimers, state)
       IN /\ intervalRef' = r.ref
          /\ htimers' = r.timers
          /\ hconsole' = r.out
    /\ UNCHANGED <<program, gvars, synced, now, state, route, statusIndicator, isSubmitting,
                   isRunningRef, hpending, navTimers>>

Hook_callStop ==
    /\ program = "app"
    /\ route = "/chat"
    /\ LET r == Hook_stopPeriodicGathering(intervalRef, htimers)
       IN /\ intervalRef' = r.ref
          /\ htimers' = r.timers
          /\ hconsole' = r.out
    /\ UNCHANGED <<program, gvars, synced, now, state, route, statusIndicator, isSubmitting,
                   isRunningRef, hpending, navTimers>>

----------------------------------------------------------------------------
(* Pages and header *)

\* typing into the query field sets local state of ChatPage: the page
\* renders again and shows what the hook returns now; the context value is
\* the same object, so no effect of the hook runs
ChatPage_handleInputChange ==
    /\ program = "app"
    /\ route = "/chat"
    /\ statusIndicator' = Rendered(route, TRUE)
    /\ isSubmitting' = isSubmitting
    /\ hconsole' = <<>>
    /\ UNCHANGED <<program, gvars, synced, now, state, route, intervalRef, isRunningRef,
                   htimers, navTimers, hpending>>

BlankInputs == {""}

NoSeparatorInputs == {"repo"}

AppPaths == {"/a", "/b"}

PathInputs == BlankInputs \cup NoSeparatorInputs \cup AppPaths

validatePath(p) ==
    IF p \in BlankInputs THEN "Codebase path is required"
    ELSE IF p \in NoSeparatorInputs THEN "Please enter a valid file system path"
    ELSE ""

\* what every handler leaves behind: reducer state, route, hook
Commit(st2, r2, dispatched, lines) ==
    LET v == Render(st2, r2, dispatched)
    IN /\ state' = st2
       /\ route' = r2
       /\ intervalRef' = v.ref
       /\ htimers' = v.timers
       /\ isRunningRef' = v.running
       /\ hconsole' = lines \o v.out
       /\ statusIndicator' = Rendered(r2, dispatched)
       /\ isSubmitting' = IF v.unmounted THEN FALSE ELSE isSubmitting
       /\ hpending' = IF v.unmounted THEN Orphan(hpending) ELSE hpending

LandingPage_handleGetStarted ==
    /\ program = "app"
    /\ route = "/"
    /\ Commit(state, "/setup", FALSE, <<>>)
    /\ UNCHANGED <<program, gvars, synced, now, navTimers>>

\* back / forward of the browser
Browser_history(r) ==
    /\ program = "app"
    /\ r # route
    /\ Commit(state, r, FALSE, <<>>)
    /\ UNCHANGED <<program, gvars, synced, now, navTimers>>

\* Changing the theme re-renders AppProvider like every other dispatch; the
\* specifications below exercise re-rendering through the other handlers.
Header_toggleTheme ==
    /\ program = "app"
    /\ LET t2 == IF state.theme = "light" THEN "dark" ELSE "light"
       IN Commit(appReducer(state, Act("SET_THEME", t2)), route, TRUE, <<>>)
    /\ UNCHANGED <<program, gvars, synced, now, navTimers>>

Header_handleHomeClick ==
    /\ program = "app"
    /\ route # "/"
    /\ Commit(appReducer(state, Act("RESET_STATE", NoError)), "/", TRUE, <<>>)
    /\ UNCHANGED <<program, gvars, synced, now, navTimers>>

\* Start Processing (or Enter) with p typed into the path field
SetupPage_handleStartProcessing(p) ==
    /\ program = "app"
    /\ route = "/setup"
    /\ ~state.isLoading
    /\ IF validatePath(p) # ""
       THEN UNCHANGED <<avars>>
       ELSE /\ CanIssue
            /\ LET st2 == Dispatch(state, <<Act("SET_ERROR", NoError),
                                            Act("SET_LOADING", TRUE),
                                            Act("SET_CODEBASE_PATH", p)>>)
                   v == Render(st2, route, TRUE)
               IN /\ state' = st2
                  /\ intervalRef' = v.ref
                  /\ htimers' = v.timers
                  /\ isRunningRef' = v.running
                  /\ hconsole' = <<"setup starting">> \o v.out
                  /\ statusIndicator' = Rendered(route, TRUE)
                  /\ isSubmitting' = isSubmitting
            /\ hpending' = hpending (+) SetToBag({[target |-> p, kind |-> "setup",
                                                    live |-> TRUE]})
            /\ UNCHANGED <<route, navTimers>>
    /\ UNCHANGED <<program, gvars, synced, now>>

\* a setup page that takes every answer of the server for a success
SetupPage_settle_anyAnswer(q, o) ==
    /\ program = "app"
    /\ BagIn(q, hpending)
    /\ q.kind = "setup"
    /\ LET res == contextService_gatherContext(o)
           ok == ~res.threw
           st2 == IF ok
                  THEN Dispatch(state, <<Act("SET_CONTEXT_GATHERED", TRUE),
                                         Act("SET_LOADING", FALSE)>>)
                  ELSE Dispatch(state, <<Act("SET_ERROR", "Failed to gather context"),
                                         Act("SET_LOADING", FALSE)>>)
           v == Render(st2, route, TRUE)
       IN /\ state' = st2
          /\ intervalRef' = v.ref
          /\ htimers' = v.timers
          /\ isRunningRef' = v.running
          /\ hconsole' = (IF ok THEN <<"setup response">>
                                ELSE <<"setup response failed">>) \o v.out
          /\ statusIndicator' = Rendered(route, TRUE)
          /\ isSubmitting' = isSubmitting
          /\ navTimers' = IF ok THEN navTimers + 1 ELSE navTimers
          /\ synced' = IF ok THEN synced \cup {q.target} ELSE synced
    /\ hpending' = hpending (-) SetToBag({q})
    /\ UNCHANGED <<program, gvars, now, route>>

\* the one-shot POST q settles with outcome o
SetupPage_settle(q, o) ==
    /\ program = "app"
    /\ BagIn(q, hpending)
    /\ q.kind = "setup"
    /\ LET res == contextService_gatherContext(o)
           ok == ~res.threw /\ res.statuscode = 200
           st2 == IF ok
                  THEN Dispatch(state, <<Act("SET_CONTEXT_GATHERED", TRUE),
                                         Act("SET_LOADING", FALSE)>>)
                  ELSE Dispatch(state, <<Act("SET_ERROR", "Failed to gather context"),
                                         Act("SET_LOADING", FALSE)>>)
           v == Render(st2, route, TRUE)
       IN /\ state' = st2
          /\ intervalRef' = v.ref
          /\ htimers' = v.timers
          /\ isRunningRef' = v.running
          /\ hconsole' = (IF ok THEN <<"setup response">>
                                ELSE <<"setup response failed">>) \o v.out
          /\ statusIndicator' = Rendered(route, TRUE)
          /\ isSubmitting' = isSubmitting
          /\ navTimers' = IF ok THEN navTimers + 1 ELSE navTimers
          /\ synced' = IF ok THEN synced \cup {q.target} ELSE synced
    /\ hpending' = hpending (-) SetToBag({q})
    /\ UNCHANGED <<program, gvars, now, route>>

\* the 1500 ms timeout set after a successful setup fires
SetupPage_navigateTimeout ==
    /\ program = "app"
    /\ navTimers > 0
    /\ navTimers' = navTimers - 1
    /\ Commit(state, "/chat", FALSE, <<>>)
    /\ UNCHANGED <<program, gvars, synced, now>>

\* the text of the query box when the form is submitted
QueryInputs == {"", "  ", "why"}

\* query.trim()
trim(text) == IF text \in {"", "  "} THEN "" ELSE text

\* contextService.submitUserQuery: response.data of a 2xx answer, or rethrow
contextService_submitUserQuery(o) ==
    CASE o = "ok200" -> [threw |-> FALSE, data |-> TRUE, statuscode |-> 200]
      [] o = "okOther" -> [threw |-> FALSE, data |-> TRUE, statuscode |-> 500]
      [] o = "okNull" -> [threw |-> FALSE, data |-> FALSE, statuscode |-> 0]
      [] OTHER -> [threw |-> TRUE, data |-> FALSE, statuscode |-> 0]

\* user queries awaiting their answer
QueriesInFlight ==
    BagCardinality([q \in {r \in BagToSet(hpending) : r.kind = "query"}
                      |-> CopiesIn(q, hpending)])

\* ChatPage.handleSubmit up to its await: the form is submitted with text in
\* the query box
ChatPage_handleSubmit(text) ==
    /\ program = "app"
    /\ route = "/chat"
    /\ ~(trim(text) = "" \/ isSubmitting \/ state.codebasePath = "")
    /\ CanIssue
    /\ Len(state.chatHistory) + QueriesInFlight + 2 <= MaxHistory
    /\ LET st2 == Dispatch(state, <<Act("SET_ERROR", NoError),
                                    Act("ADD_CHAT_MESSAGE", [type |-> "user"])>>)
           v == Render(st2, route, TRUE)
       IN /\ state' = st2
          /\ intervalRef' = v.ref
          /\ htimers' = v.timers
          /\ isRunningRef' = v.running
          /\ hconsole' = v.out
          /\ statusIndicator' = Rendered(route, TRUE)
    /\ isSubmitting' = TRUE
    /\ hpending' = hpending (+) SetToBag({[target |-> state.codebasePath,
                                            kind |-> "query", live |-> TRUE]})
    /\ UNCHANGED <<program, gvars, synced, now, route, navTimers>>

\* ChatPage.handleSubmit from its await on: the answer, or the failure, of
\* the query q.  setIsSubmitting belongs to the instance that submitted q.
ChatPage_settle(q, o) ==
    /\ program = "app"
    /\ BagIn(q, hpending)
    /\ q.kind = "query"
    /\ LET res == contextService_submitUserQuery(o)
           ok == ~res.threw /\ res.data /\ res.statuscode = 200
           st2 == IF ok
                  THEN appReducer(state, Act("ADD_CHAT_MESSAGE", [type |-> "assistant"]))
                  ELSE Dispatch(state, <<Act("SET_ERROR", "Failed to process query"),
                                         Act("ADD_CHAT_MESSAGE", [type |-> "error"])>>)
           v == Render(st2, route, TRUE)
       IN /\ state' = st2
          /\ intervalRef' = v.ref
          /\ htimers' = v.timers
          /\ isRunningRef' = v.running
          /\ hconsole' = (IF ok THEN <<>> ELSE <<"query failed">>) \o v.out
          /\ statusIndicator' = Rendered(route, TRUE)
    /\ isSubmitting' = IF q.live THEN FALSE ELSE isSubmitting
    /\ hpending' = hpending (-) SetToBag({q})
    /\ UNCHANGED <<program, gvars, synced, now, route, navTimers>>

\* ChatPage.clearChat: the Clear Chat button, shown while the history is not
\* empty
ChatPage_clearChat ==
    /\ program = "app"
    /\ route = "/chat"
    /\ Len(state.chatHistory) > 0
    /\ Commit(appReducer(state, Act("CLEAR_CHAT_HISTORY", NoError)), route, TRUE, <<>>)
    /\ UNCHANGED <<program, gvars, synced, now, navTimers>>

----------------------------------------------------------------------------
(* Passage of time *)

\* A timer that is due fires before the clock moves on, and a request is
\* settled (at the latest by axios' timeout) before its deadline passes.
Gatherer_quiet ==
    exited \/ ( /\ \A t \in timers : t.due > now
                /\ \A i \in 1..Len(pending) : now < pending[i].sentAt + TimeoutUnits )

\* In the browser a due timer (interval or timeout) fires before the clock
\* moves on.  How long a request of the browser stays unsettled is left open:
\* apiClient's timeout rejects it at the latest after AxiosTimeoutMs, which
\* the handlers treat like any other rejection.
App_quiet ==
    /\ \A t \in htimers : t.due > now
    /\ navTimers = 0

Advance ==
    /\ now < MaxTime
    /\ program \in NodePrograms => Gatherer_quiet
    /\ program = "app" => App_quiet
    /\ now' = now + 1
    /\ UNCHANGED <<program, gvars, avars>>

----------------------------------------------------------------------------

GathererInit ==
    /\ codebasePath \in GathererPaths
    /\ intervalMinutes \in 1..MaxIntervalMinutes
    /\ intervalId = NULL
    /\ isRunning = FALSE
    /\ timers = {}
    /\ pending = <<>>
    /\ invocations = 0
    /\ console = <<>>
    /\ exited = FALSE
    /\ argv = <<>>
    /\ exitCode = NoExit
    /\ constructed = TRUE
    /\ begun = <<>>
    /\ peer = PeerInit

AppInit ==
    /\ state = initialState
    /\ route = "/"
    /\ intervalRef = NULL
    /\ isRunningRef = FALSE
    /\ htimers = {}
    /\ navTimers = 0
    /\ hpending = EmptyBag
    /\ hconsole = <<>>

\* One run executes one program and the others never start.  Init is the
\* class in the hands of a caller that has imported it ("script") or the
\* React application ("app"); CliInit below is the file executed directly.
Init ==
    /\ now = 0
    /\ program \in {"script", "app"}
    /\ GathererInit
    /\ AppInit
    /\ program = "app" => (codebasePath = "" /\ intervalMinutes = 1)
    /\ synced = AppPaths
    /\ statusIndicator = NotRecorded
    /\ isSubmitting = FALSE

Next ==
    \/ Gatherer_start
    \/ Gatherer_stop
    \/ Gatherer_manualGather
    \/ \E t \in timers : Gatherer_tick(t)
    \/ \E i \in 1..Len(pending), o \in Outcomes : Gatherer_settle(i, o)
    \/ Gatherer_handleExit
    \/ LandingPage_handleGetStarted
    \/ \E r \in Routes : Browser_history(r)
    \/ Header_handleHomeClick
    \/ \E p \in PathInputs : SetupPage_handleStartProcessing(p)
    \/ \E q \in BagToSet(hpending), o \in Outcomes : SetupPage_settle(q, o)
    \/ SetupPage_navigateTimeout
    \/ \E t \in htimers : Hook_tick(t)
    \/ \E q \in BagToSet(hpending), o \in Outcomes : Hook_settle(q, o)
    \/ Hook_callGather
    \/ Hook_callStart
    \/ Hook_callStop
    \/ Advance

Spec == Init /\ [][Next]_vars

\* Both programs with one target each, the gatherer at a one-minute
\* interval, the application driven through its pages.  axios settles every
\* request of either program, at the latest by the timeout of its client.
FairInit ==
    /\ Init
    /\ program = "script" => (codebasePath = "/repo" /\ intervalMinutes = 1)

FairNext ==
    \/ Gatherer_start
    \/ Gatherer_stop
    \/ \E t \in timers : Gatherer_tick(t)
    \/ \E i \in 1..Len(pending), o \in Outcomes : Gatherer_settle(i, o)
    \/ Gatherer_handleExit
    \/ LandingPage_handleGetStarted
    \/ \E r \in Routes : Browser_history(r)
    \/ SetupPage_handleStartProcessing("/a")
    \/ \E q \in BagToSet(hpending), o \in Outcomes : SetupPage_settle(q, o)
    \/ SetupPage_navigateTimeout
    \/ \E t \in htimers : Hook_tick(t)
    \/ \E q \in BagToSet(hpending), o \in Outcomes : Hook_settle(q, o)
    \/ Advance

FairSpec ==
    FairInit /\ [][FairNext]_vars
    /\ WF_vars(\E i \in 1..Len(pending), o \in Outcomes : Gatherer_settle(i, o))
    /\ WF_vars(\E q \in BagToSet(hpending), o \in Outcomes : Hook_settle(q, o))

\* the node script alone
ScriptInit == Init /\ program = "script"

ScriptNext ==
    \/ Gatherer_start
    \/ Gatherer_stop
    \/ Gatherer_manualGather
    \/ \E t \in timers : Gatherer_tick(t)
    \/ \E i \in 1..Len(pending), o \in Outcomes : Gatherer_settle(i, o)
    \/ Gatherer_handleExit
    \/ Advance

ScriptSpec == ScriptInit /\ [][ScriptNext]_vars

\* axios settles every request, at the latest by its timeout
ScriptFairSpec ==
    ScriptInit /\ [][ScriptNext]_vars
    /\ WF_vars(\E i \in 1..Len(pending), o \in Outcomes : Gatherer_settle(i, o))

\* the command lines main is run with
MaxArgs == 2

ArgvSet == UNION {[1..n -> Tokens] : n \in 0..MaxArgs}

\* the file executed directly: no instance exists before main has run
CliInit ==
    /\ now = 0
    /\ program = "cli"
    /\ AppInit
    /\ codebasePath = "" /\ intervalMinutes = DEFAULT_INTERVAL_MINUTES
    /\ intervalId = NULL /\ isRunning = FALSE
    /\ timers = {} /\ pending = <<>> /\ invocations = 0
    /\ console = <<>> /\ exited = FALSE
    /\ argv \in ArgvSet
    /\ exitCode = NoExit
    /\ constructed = FALSE
    /\ begun = <<>>
    /\ peer = PeerInit
    /\ synced = AppPaths
    /\ statusIndicator = NotRecorded
    /\ isSubmitting = FALSE

CliNext ==
    \/ main
    \/ \E t \in timers : Gatherer_tick(t)
    \/ \E i \in 1..Len(pending), o \in Outcomes : Gatherer_settle(i, o)
    \/ Gatherer_handleExit
    \/ Advance

CliSpec == CliInit /\ [][CliNext]_vars

\* The command line against a server that answers at once: every request
\* settles with statuscode 200 at the time it was sent.
InstantNext ==
    \/ main
    \/ \E t \in timers : Gatherer_tick(t)
    \/ \E i \in 1..Len(pending) : Gatherer_settle(i, "ok200")
    \/ Gatherer_handleExit
    \/ ((exited \/ pending = <<>>) /\ Advance)

InstantSpec == CliInit /\ [][InstantNext]_vars

\* The request at position i has been outstanding for two and a half
\* minutes: two whole minutes have passed since it was sent and the timers
\* due at that minute have fired.
TwoAndAHalfMinutes(i) ==
    /\ now = pending[i].sentAt + (150 * 1000) \div MsPerUnit
    /\ \A t \in timers : t.due > now

\* The command line against a server that takes two and a half minutes to
\* answer, whatever it answers.
SlowNext ==
    \/ main
    \/ \E t \in timers : Gatherer_tick(t)
    \/ \E i \in 1..Len(pending), o \in Outcomes :
          TwoAndAHalfMinutes(i) /\ Gatherer_settle(i, o)
    \/ Gatherer_handleExit
    \/ ( /\ exited \/ \A i \in 1..Len(pending) :
                         now < pending[i].sentAt + (150 * 1000) \div MsPerUnit
         /\ Advance )

SlowSpec == CliInit /\ [][SlowNext]_vars

\* a caller that has imported the class and drives two instances of it
PairInit == ScriptInit /\ codebasePath = "/repo" /\ intervalMinutes = 1

PairNext ==
    \/ Gatherer_start
    \/ Gatherer_stop
    \/ \E t \in timers : Gatherer_tick(t)
    \/ \E i \in 1..Len(pending), o \in Outcomes : Gatherer_settle(i, o)
    \/ Peer_start
    \/ Peer_stop
    \/ \E t \in timers : Peer_tick(t)
    \/ \E i \in 1..Len(pending), o \in Outcomes : Peer_settle(i, o)
    \/ Advance

PairSpec == PairInit /\ [][PairNext]_vars

\* the React application alone
AppInit0 == Init /\ program = "app"

AppNext ==
    \/ LandingPage_handleGetStarted
    \/ \E r \in Routes : Browser_history(r)
    \/ Header_handleHomeClick
    \/ \E p \in PathInputs : SetupPage_handleStartProcessing(p)
    \/ \E q \in BagToSet(hpending), o \in Outcomes : SetupPage_settle(q, o)
    \/ SetupPage_navigateTimeout
    \/ \E t \in htimers : Hook_tick(t)
    \/ \E q \in BagToSet(hpending), o \in Outcomes : Hook_settle(q, o)
    \/ Hook_callGather
    \/ Hook_callStart
    \/ Hook_callStop
    \/ Advance

AppSpec == AppInit0 /\ [][AppNext]_vars

\* the application as its pages use the hook: ChatPage reads
\* isPeriodicGatheringActive and calls none of the functions the hook returns;
\* its own input field renders it again
PagesNext ==
    \/ LandingPage_handleGetStarted
    \/ \E r \in Routes : Browser_history(r)
    \/ Header_toggleTheme
    \/ Header_handleHomeClick
    \/ ChatPage_handleInputChange
    \/ \E p \in PathInputs : SetupPage_handleStartProcessing(p)
    \/ \E q \in BagToSet(hpending), o \in Outcomes : SetupPage_settle(q, o)
    \/ SetupPage_navigateTimeout
    \/ \E t \in htimers : Hook_tick(t)
    \/ \E q \in BagToSet(hpending), o \in Outcomes : Hook_settle(q, o)
    \/ Advance

\* The status indicator is followed by the runs that start with it recorded;
\* the page first displayed is the landing page, which shows none.
PagesInit ==
    /\ now = 0
    /\ program = "app"
    /\ GathererInit
    /\ codebasePath = "" /\ intervalMinutes = 1
    /\ AppInit
    /\ synced = AppPaths
    /\ statusIndicator = StatusIndicator(FALSE)
    /\ isSubmitting = FALSE

PagesSpec == PagesInit /\ [][PagesNext]_vars

\* the application up to the chat page: landing page, setup page, header
SetupNext ==
    \/ LandingPage_handleGetStarted
    \/ \E r \in Routes : Browser_history(r)
    \/ Header_handleHomeClick
    \/ \E p \in PathInputs : SetupPage_handleStartProcessing(p)
    \/ \E q \in BagToSet(hpending), o \in Outcomes : SetupPage_settle(q, o)
    \/ SetupPage_navigateTimeout
    \/ Advance

SetupSpec == AppInit0 /\ [][SetupNext]_vars

\* The reducer on its own: every action type, applied to the states it builds
Themes == {"light", "dark"}

\* chat messages, by their type field
ChatMessages == [type : {"user", "assistant", "error"}]

ReducerActions ==
    [type : {"SET_THEME"}, payload : Themes]
      \cup [type : {"SET_CODEBASE_PATH"}, payload : {""} \cup AppPaths]
      \cup [type : {"SET_CONTEXT_GATHERED", "SET_LOADING"}, payload : BOOLEAN]
      \cup [type : {"SET_ERROR"}, payload : {NoError, "Failed to gather context"}]
      \cup [type : {"ADD_CHAT_MESSAGE"}, payload : ChatMessages]
      \cup [type : {"CLEAR_CHAT_HISTORY", "RESET_STATE", "UNKNOWN"}, payload : {NoError}]

Reducer_apply(a) ==
    /\ program = "app"
    /\ a.type = "ADD_CHAT_MESSAGE" => Len(state.chatHistory) < MaxHistory
    /\ state' = appReducer(state, a)
    /\ UNCHANGED <<now, program, gvars, route, intervalRef, isRunningRef, htimers,
                   navTimers, hpending, hconsole, statusIndicator, isSubmitting, synced>>

ReducerNext == \E a \in ReducerActions : Reducer_apply(a)

ReducerSpec == AppInit0 /\ [][ReducerNext]_vars

\* the application with the chat form of ChatPage, within the first minute
ChatNext ==
    \/ LandingPage_handleGetStarted
    \/ \E r \in Routes : Browser_history(r)
    \/ Header_handleHomeClick
    \/ \E p \in PathInputs : SetupPage_handleStartProcessing(p)
    \/ \E q \in BagToSet(hpending), o \in Outcomes : SetupPage_settle(q, o)
    \/ SetupPage_navigateTimeout
    \/ \E text \in QueryInputs : ChatPage_handleSubmit(text)
    \/ \E q \in BagToSet(hpending), o \in Outcomes : ChatPage_settle(q, o)
    \/ ChatPage_clearChat

ChatSpec == AppInit0 /\ [][ChatNext]_vars

\* The history of one-shot synchronizations is kept by the runs that start
\* it empty; Init starts it full, where it stays.
SyncInit ==
    /\ now = 0
    /\ program = "app"
    /\ GathererInit
    /\ codebasePath = "" /\ intervalMinutes = 1
    /\ AppInit
    /\ synced = {}
    /\ statusIndicator = NotRecorded
    /\ isSubmitting = FALSE

SyncSpec == SyncInit /\ [][PagesNext]_vars

----------------------------------------------------------------------------
(* Properties *)

Has(line, lines) == \E k \in 1..Len(lines) : lines[k] = line

\* requests in flight that the mounted hook instance has issued
LivePeriodic ==
    BagCardinality([q \in {r \in BagToSet(hpending) : r.kind = "periodic" /\ r.live}
                      |-> CopiesIn(q, hpending)])

\* a firing of an interval timer re-arms it and leaves the handle alone
ScriptTickStep == program = "script" /\ timers' # timers /\ intervalId' = intervalId

ScriptSettleStep == program = "script" /\ Len(pending') < Len(pending)

GathererReports == {Gatherer_report(o) : o \in Outcomes}

\* C1: at most one synchronization request of a scheduler instance is in
\* flight at any time, and the in-flight flag is set exactly while it is,
\* whatever the interleaving of start, stop, ticks, direct calls and
\* completions (node script and mounted hook).
C1_AtMostOneInFlight ==
    /\ Len(pending) <= 1
    /\ ~exited => (isRunning <=> pending # <<>>)
    /\ LivePeriodic <= 1
    /\ isRunningRef <=> LivePeriodic = 1

\* a caller was turned away while the single request is in flight
C1_Witness ==
    /\ program = "script"
    /\ isRunning
    /\ Len(pending) = 1
    /\ console = <<"skipping">>

\* C2: invocations of the gatherer are serialized without backlog: a request
\* is issued only when none is in flight and the flag is released; the step
\* that completes an invocation reports its outcome, releases the flag and
\* issues nothing; a call turned away leaves nothing queued.
C2_SerializedNoBacklog ==
    [][ program = "script" =>
        /\ (invocations' # invocations) =>
              /\ ~isRunning /\ pending = <<>>
              /\ invocations' = invocations + 1
              /\ Len(pending') = 1 /\ isRunning'
        /\ ScriptSettleStep =>
              /\ console' \in GathererReports
              /\ invocations' = invocations
              /\ pending' = <<>> /\ ~isRunning'
        /\ (ScriptTickStep /\ isRunning) =>
              UNCHANGED <<pending, invocations, isRunning>> ]_vars

\* an invocation outlasted a tick, which was dropped, and has now completed
\* without a catch-up invocation
C2_Witness ==
    /\ program = "script"
    /\ invocations = 1
    /\ ~isRunning /\ pending = <<>>
    /\ console \in GathererReports
    /\ \E t \in timers : t.id = intervalId /\ t.due >= t.armedAt + 2 * t.period

\* C3: start() on an idle gatherer with a non-empty target and nothing in
\* flight issues exactly one request in the same step, at the current time,
\* and arms exactly one repeating timer with the configured interval.
C3_StartInvokesThenArms ==
    [][ ( /\ program = "script" /\ codebasePath # ""
          /\ intervalId = NULL /\ intervalId' # NULL /\ ~isRunning )
        => /\ now' = now
           /\ invocations' = invocations + 1
           /\ isRunning'
           /\ pending' = <<[sentAt |-> now, target |-> codebasePath]>>
           /\ Cardinality(timers') = 1
           /\ \A t \in timers' :
                 /\ t.id = intervalId'
                 /\ t.armedAt = now
                 /\ t.period = intervalMs(intervalMinutes)
                 /\ t.due = now + t.period ]_vars

C3_Witness ==
    /\ program = "script"
    /\ codebasePath # ""
    /\ console = <<"banner", "starting">>
    /\ invocations = 1
    /\ Cardinality(timers) = 1

\* a step in which startPeriodicGathering armed the hook's timer
HookStartStep == program = "app" /\ now' = now /\ Has("every 3 minutes", hconsole')

\* a step in which the hook's gatherContext issued its request
HookBeginStep == program = "app" /\ LivePeriodic' > LivePeriodic

C5_TickInFlightSkips ==
    [][ (ScriptTickStep /\ isRunning) =>
        /\ UNCHANGED <<pending, invocations, isRunning, intervalId>>
        /\ console' = <<"skipping">>
        /\ console' \notin GathererReports
        /\ Cardinality(timers') = Cardinality(timers)
        /\ \E t \in timers' : t.id = intervalId /\ t.period = intervalMs(intervalMinutes)
      ]_vars

\* the timer has fired since it was armed, the only invocation ever begun
\* is still in flight, and the last call was reported as skipped
C5_Witness ==
    /\ program = "script"
    /\ isRunning
    /\ invocations = 1
    /\ console = <<"skipping">>
    /\ \E t \in timers : t.id = intervalId /\ t.due = now + t.period
                         /\ t.due >= t.armedAt + 2 * t.period

\* a firing of the hook's timer that finds isRunningRef set
HookTickInFlightStep ==
    /\ program = "app"
    /\ isRunningRef
    /\ htimers' # htimers
    /\ UNCHANGED <<state, route, intervalRef, hpending, navTimers>>

\* C6: every tick of the hook's timer is reported: a tick that finds an
\* invocation in flight writes a skipped-due-to-overlap line.
C6_HookTickReported ==
    [][ HookTickInFlightStep => hconsole' # <<>> ]_vars

\* C7: once stop() has returned no timer of the scheduler is armed in the
\* runtime, so no tick can begin an invocation until start() arms one
\* again; the same holds for the hook after stopPeriodicGathering and after
\* its unmount.
C7_StoppedMeansNoTimer ==
    /\ intervalId = NULL => timers = {}
    /\ exited => timers = {}
    /\ intervalRef = NULL => htimers = {}
    /\ route # "/chat" => (intervalRef = NULL /\ htimers = {})

\* stop() has returned and time has passed with no timer armed
C7_Witness ==
    /\ program = "script"
    /\ console = <<"stopped">>
    /\ intervalId = NULL
    /\ timers = {}
    /\ invocations = 1
    /\ now >= 3

ScriptStopStep == program = "script" /\ intervalId # NULL /\ intervalId' = NULL /\ ~exited'

\* C8: stop() called while an invocation is in flight does not cancel it:
\* the request stays pending and the flag set, no timer remains armed; the
\* invocation completes (unless a signal ends the process first), and the
\* completing step reports the outcome, releases the flag and arms nothing.
C8_StopLetsInvocationFinish ==
    /\ [][ (ScriptStopStep /\ isRunning) =>
              /\ pending' = pending /\ pending' # <<>>
              /\ isRunning'
              /\ timers' = {} ]_vars
    /\ [][ ScriptSettleStep =>
              /\ console' \in GathererReports
              /\ ~isRunning'
              /\ UNCHANGED <<timers, intervalId>> ]_vars
    /\ ( (program = "script" /\ isRunning /\ intervalId = NULL /\ ~exited)
           ~> (~isRunning \/ exited) )

\* stop() has just returned while the invocation is still in flight
C8_Witness ==
    /\ program = "script"
    /\ console = <<"stopped">>
    /\ isRunning
    /\ Len(pending) = 1
    /\ intervalId = NULL
    /\ timers = {}

\* C9: start on a running scheduler is a no-op: at most one timer is armed
\* per instance, and it is the one the handle names; start() of the gatherer
\* with a timer armed changes neither timers, handle, flag, requests nor the
\* invocation count, and startPeriodicGathering with intervalRef set
\* returns the hook's timers and handle as they were.
C9_StartWhileRunningIsNoOp ==
    /\ [](/\ Cardinality(timers) <= 1
          /\ \A t \in timers : t.id = intervalId
          /\ Cardinality(htimers) <= 1
          /\ \A t \in htimers : t.id = intervalRef
          /\ intervalRef # NULL =>
                Hook_startPeriodicGathering(intervalRef, htimers, state)
                   = [ref |-> intervalRef, timers |-> htimers, out |-> <<>>])
    /\ [][ (program = "script" /\ console' = <<"already running">>) =>
              UNCHANGED <<timers, intervalId, isRunning, pending, invocations>> ]_vars
    /\ [][ (program = "script" /\ intervalId # NULL /\ intervalId' # NULL) =>
              (intervalId' = intervalId /\ Cardinality(timers') = 1) ]_vars

\* start() was called with the timer armed
C9_Witness ==
    /\ program = "script"
    /\ console = <<"already running">>
    /\ intervalId # NULL
    /\ Cardinality(timers) = 1

ScriptFailureStep == ScriptSettleStep /\ Has("failed", console')

HookFailureStep ==
    /\ program = "app"
    /\ hconsole' = <<"failed">>
    /\ BagCardinality(hpending') < BagCardinality(hpending)

\* C10: a failed invocation leaves the schedule alone: the step that
\* reports the failure releases the flag, keeps the timer, its period and
\* its due time, and does not end the process; a tick that finds the flag
\* released issues a new request.  In the hook the failure also leaves the
\* reducer state unchanged.
C10_FailureKeepsSchedule ==
    /\ [][ ScriptFailureStep =>
              /\ ~isRunning'
              /\ UNCHANGED <<timers, intervalId, exited, intervalMinutes>> ]_vars
    /\ [][ (ScriptTickStep /\ ~isRunning) =>
              (isRunning' /\ Len(pending') = Len(pending) + 1) ]_vars
    /\ [][ HookFailureStep =>
              /\ UNCHANGED <<htimers, intervalRef, state, route>>
              /\ (LivePeriodic' < LivePeriodic) => ~isRunningRef' ]_vars
    /\ [][ (program = "app" /\ htimers' # htimers /\ ~isRunningRef
            /\ UNCHANGED <<state, route, intervalRef, navTimers>>
            /\ BagCardinality(hpending') >= BagCardinality(hpending)) =>
              (isRunningRef' /\ LivePeriodic' = 1) ]_vars

\* a failure has been reported and the timer is still armed
C10_Witness ==
    /\ program = "script"
    /\ console = <<"failed", "network">>
    /\ ~isRunning
    /\ intervalId # NULL
    /\ \E t \in timers : t.id = intervalId /\ t.due >= now

\* a periodic request issued by the mounted hook settles
HookLiveSettleStep ==
    /\ program = "app"
    /\ \E q \in BagToSet(hpending) :
          /\ q.kind = "periodic" /\ q.live
          /\ hpending' = hpending (-) SetToBag({q})

\* C11: the outcome of an invocation never affects the schedule: the step in
\* which an invocation completes, with statuscode 200 or with a failure,
\* leaves the owner's timer, its handle and its next due time as they were,
\* in the gatherer and in the mounted hook.
C11_OutcomeKeepsCadence ==
    /\ [][ ScriptSettleStep => UNCHANGED <<timers, intervalId>> ]_vars
    /\ [][ (HookLiveSettleStep /\ intervalRef # NULL) =>
              UNCHANGED <<htimers, intervalRef>> ]_vars

\* start() on a gatherer without an armed timer
ScriptStartStep == program = "script" /\ intervalId = NULL /\ intervalId' # NULL

\* C12 (as claimed): every start() of an idle gatherer begins a new
\* invocation at once, also when an earlier invocation is still in flight.
C12_EveryStartInvokes ==
    [][ ScriptStartStep => invocations' = invocations + 1 ]_vars

\* C12 (amended): every start() of an idle gatherer, the first one or one
\* after stop(), calls gatherContext at once and arms the timer.  With no
\* invocation in flight that call begins a new invocation at the current
\* time; with the invocation of an earlier start() still in flight it is
\* turned away by the in-progress guard: the skip is reported and no request
\* is issued.
C12_StartInvokesUnlessInFlight ==
    [][ ScriptStartStep =>
        /\ now' = now
        /\ \E t \in timers' : t.id = intervalId' /\ t.armedAt = now
        /\ ~isRunning =>
              /\ invocations' = invocations + 1
              /\ pending' = Append(pending, [sentAt |-> now, target |-> codebasePath])
              /\ isRunning'
              /\ console' = <<"banner", "starting">>
        /\ isRunning =>
              /\ UNCHANGED <<invocations, pending, isRunning>>
              /\ console' = <<"banner", "skipping">> ]_vars

\* start() was called again while the invocation begun earlier was still in
\* flight: the timer is armed anew and the only request is the earlier one
C12_Witness ==
    /\ program = "script"
    /\ console = <<"banner", "skipping">>
    /\ isRunning
    /\ invocations = 1
    /\ \E t \in timers : t.id = intervalId /\ t.armedAt = now
                         /\ pending[1].sentAt < t.armedAt

\* C13: in every closed time window [a, b] of a running period the number
\* of invocations the scheduler has begun is at most
\* floor((b - a) / interval) + 1, whatever the durations and outcomes of the
\* invocations (process run by main: one start, then ticks).
C13_WindowBound ==
    \A a \in 0..now, b \in 0..now :
        a <= b =>
            Cardinality({k \in 1..Len(begun) : a <= begun[k] /\ begun[k] <= b})
                <= ((b - a) \div intervalMs(intervalMinutes)) + 1

\* with a 1-minute interval at least three invocations have begun one
\* interval apart, so the bound is attained
C13_Witness ==
    /\ program = "cli"
    /\ intervalMinutes = 1
    /\ Len(begun) >= 3
    /\ begun[Len(begun)] - begun[1] = Len(begun) - 1
    /\ Len(begun) = invocations

\* the conditions under which the start/stop effect keeps the timer armed
HookShouldRun ==
    /\ route = "/chat"
    /\ state.codebasePath # ""
    /\ state.isContextGathered

\* C14: once the effects of a render have run, the hook's timer is armed
\* exactly when ChatPage is mounted, state.codebasePath is non-empty and
\* state.isContextGathered is true; the armed timer is the one intervalRef
\* names and its callback has captured the current target.
C14_ArmedIffConditions ==
    program = "app" =>
        /\ (intervalRef # NULL) <=> HookShouldRun
        /\ (htimers # {}) <=> HookShouldRun
        /\ \A t \in htimers : t.id = intervalRef /\ t.cb = state.codebasePath

\* ChatPage has been unmounted with a target set and context gathered: the
\* cleanup has disarmed the timer
C14_Witness ==
    /\ program = "app"
    /\ route # "/chat"
    /\ state.codebasePath # ""
    /\ state.isContextGathered
    /\ Has("stopping", hconsole)
    /\ htimers = {}
    /\ intervalRef = NULL

\* C15: whenever the hook's timer is armed for a target, a one-shot
\* synchronization of that same target has completed with statuscode 200
\* before.
C15_ArmedOnlyForSyncedTarget ==
    \A t \in htimers : t.cb \in synced

\* main has run: it has exited or constructed the gatherer
MainDone == program = "cli" /\ (exited \/ constructed)

\* C16: a second argument whose value is below 1 (0 and negative numbers
\* included) makes main print an error and exit with a non-zero status
\* before a gatherer is constructed or started.
C16_IntervalBelowOneRejected ==
    LET n == parseInt(argv, 2)
    IN ( /\ MainDone
         /\ ~Main_wantsHelp(argv) /\ ~Main_noPath(argv)
         /\ Len(argv) >= 2 /\ ~n.nan /\ n.val < 1 )
       => /\ ~constructed
          /\ exitCode = 1
          /\ invocations = 0 /\ timers = {} /\ pending = <<>>

\* C17: a scheduler whose target is the empty string never issues a request
\* and never has a timer armed: start() on it is rejected and leaves it idle.
C17_EmptyTargetNeverInvokes ==
    [][ (program = "script" /\ codebasePath = "") =>
           /\ invocations' = invocations
           /\ pending' = pending
           /\ intervalId' = NULL
           /\ timers' = {} ]_vars

\* the command line names no target: no first argument, or an empty one
NoTarget ==
    /\ \A k \in 1..Len(argv) : argv[k] \notin {"--help", "-h"}
    /\ (Len(argv) = 0 \/ argv[1] = "")

\* C18: run without a target path, main prints the error and exits with
\* status 1; no gatherer is constructed, no timer is armed and no request is
\* issued, then or later.
C18_MissingTargetExits ==
    /\ []( (program = "cli" /\ NoTarget) =>
              /\ ~constructed
              /\ intervalId = NULL /\ timers = {}
              /\ invocations = 0 /\ pending = <<>>
              /\ exited => (exitCode = 1 /\ console = <<"error: path required">>) )
    /\ [][ (program = "cli" /\ NoTarget /\ console' # console) =>
              (exited' /\ exitCode' = 1) ]_vars

\* main has run with an empty command line and has exited with status 1
C18_Witness ==
    /\ program = "cli"
    /\ argv = <<>>
    /\ exited
    /\ exitCode = 1
    /\ console = <<"error: path required">>

\* C19: contextService.gatherContext never raises: whatever the transport
\* result of a request the application has sent through it, the caller
\* awaiting it receives a value and no rejection.
C19_ServiceNeverRaises ==
    [][ \A q \in BagToSet(hpending), o \in Outcomes :
           (Hook_settle(q, o) \/ SetupPage_settle(q, o)) =>
               ~contextService_gatherContext(o).threw ]_vars

\* C20: every invocation that completes without statuscode 200 in its
\* response body is reported as a failure, by the gatherer and by the hook.
C20_Non200ReportedAsFailure ==
    /\ [][ \A i \in 1..Len(pending), o \in Outcomes \ {"ok200"} :
              Gatherer_settle(i, o) => Has("failed", console') ]_vars
    /\ [][ \A q \in BagToSet(hpending), o \in Outcomes \ {"ok200"} :
              Hook_settle(q, o) => Has("failed", hconsole') ]_vars

\* a step in which the gatherer's signal handler runs
HandleExitStep ==
    /\ program \in NodePrograms
    /\ constructed
    /\ ~exited
    /\ Has("shutting down", console')
    /\ console' # console

\* C21: on SIGINT or SIGTERM the gatherer's handler disarms the timer
\* through stop() and leaves the process with status 0; once the signal has
\* been handled no invocation begins and no request is issued.
C21_SignalStopsAndExits ==
    /\ [][ HandleExitStep =>
              /\ exited' /\ exitCode' = 0
              /\ intervalId' = NULL /\ timers' = {}
              /\ (intervalId # NULL) => Has("stopped", console')
              /\ invocations' = invocations ]_vars
    /\ [][ (program \in NodePrograms /\ exited) =>
              /\ exited'
              /\ invocations' = invocations
              /\ begun' = begun
              /\ timers' = timers
              /\ \A i \in 1..Len(pending') : i <= Len(pending) /\ pending'[i] = pending[i] ]_vars

\* the signal handler has run on an armed gatherer, and the time of the
\* tick it cancelled has passed with no further invocation
C21_Witness ==
    /\ program = "cli"
    /\ constructed /\ exited /\ exitCode = 0
    /\ console = <<"shutting down", "stopped">>
    /\ timers = {} /\ intervalId = NULL
    /\ Len(begun) = 1
    /\ now >= begun[1] + intervalMinutes

\* C22: an invocation in flight when SIGINT or SIGTERM arrives is not cut
\* off by the shutdown: the process terminates only once that invocation
\* has completed and its outcome has been reported, so a terminated process
\* has no request outstanding and no invocation in progress.
C22_InFlightCompletesBeforeExit ==
    (program \in NodePrograms /\ constructed /\ exited) =>
        (pending = <<>> /\ ~isRunning)

\* C23: the activity indicator ChatPage shows ("Auto-sync active",
\* isPeriodicGatheringActive) is true exactly when the hook's timer is armed.
C23_IndicatorMatchesTimer ==
    program = "app" => (statusIndicator = StatusIndicator(intervalRef # NULL))

\* C24: stop() on a scheduler that is already idle is a no-op: it changes
\* neither the timer nor the in-flight flag and reports nothing, in the
\* gatherer and in the hook; a second stop() right after a first one changes
\* nothing more.
C24_StopOnIdleIsNoOp ==
    /\ [][ (Gatherer_stop /\ intervalId = NULL) =>
              /\ console' = <<>>
              /\ UNCHANGED <<timers, intervalId, isRunning, pending, invocations, exited>> ]_vars
    /\ [][ Gatherer_stop =>
              Gatherer_stopEffect' =
                  [timers |-> timers', intervalId |-> intervalId', out |-> <<>>] ]_vars
    /\ [][ (Hook_callStop /\ intervalRef = NULL) =>
              /\ hconsole' = <<>>
              /\ UNCHANGED <<htimers, intervalRef, isRunningRef, hpending, state>> ]_vars
    /\ [][ Hook_callStop =>
              (Hook_stopPeriodicGathering(intervalRef, htimers))' =
                  [ref |-> intervalRef', timers |-> htimers', out |-> <<>>] ]_vars

\* stop() has just been called on an idle gatherer whose last invocation
\* is still in flight: nothing was reported and the flag is still set
C24_Witness ==
    /\ program = "script"
    /\ intervalId = NULL /\ timers = {}
    /\ invocations >= 1
    /\ isRunning
    /\ console = <<>>

\* main has started a gatherer with a one-minute interval at time 0
StartedAtZero ==
    /\ program = "cli"
    /\ constructed
    /\ intervalMinutes = 1
    /\ begun # <<>> /\ begun[1] = 0

\* C25: with a one-minute interval and a server that succeeds at once, the
\* gatherer started at time 0 begins one invocation at every whole minute:
\* at minutes 0, 1, 2 and 3, four in the first three and a half minutes,
\* and no tick is skipped.
C25_InstantSuccessEveryMinute ==
    StartedAtZero =>
        /\ \A k \in 1..Len(begun) : begun[k] = k - 1
        /\ ~Has("skipping", console)
        /\ (~exited /\ \A t \in timers : t.due > now) => Len(begun) = now + 1

\* minute 3 of such a run: the fourth invocation has begun and succeeded
C25_Witness ==
    /\ StartedAtZero
    /\ now = 3
    /\ begun = <<0, 1, 2, 3>>
    /\ ~isRunning
    /\ console = <<"success">>

\* a step in which the timer of the running gatherer fires
CliTickStep ==
    /\ program = "cli"
    /\ constructed
    /\ ~exited'
    /\ timers' # timers

\* C26: with a one-minute interval and a server that takes two and a half
\* minutes, the gatherer started at time 0 begins its first invocation at
\* 0, reports the ticks of minutes 1 and 2 as skipped, begins no second
\* invocation before minute 3, and begins the second at the tick of minute 3.
C26_SlowCallSkipsTwoTicks ==
    /\ [](StartedAtZero =>
             /\ now < 3 => begun = <<0>>
             /\ Len(begun) >= 2 => begun[2] = 3)
    /\ [][ (StartedAtZero /\ CliTickStep /\ now \in {1, 2}) =>
              /\ isRunning
              /\ console' = <<"skipping">>
              /\ invocations' = invocations /\ pending' = pending ]_vars
    /\ [][ (StartedAtZero /\ CliTickStep /\ now = 3) =>
              /\ ~isRunning
              /\ begun' = <<0, 3>>
              /\ console' = <<"starting">> ]_vars

\* minute 3 of such a run: the tick has begun the second invocation
C26_Witness ==
    /\ StartedAtZero
    /\ now = 3
    /\ begun = <<0, 3>>
    /\ isRunning
    /\ console = <<"starting">>

\* the timers armed by the first instance, and by the second
OwnTimers(ts) == {t \in ts : t.cb = "gatherContext"}

PeerTimers(ts) == {t \in ts : t.cb = "peer.gatherContext"}

\* a step that changes the flag, the handle or the timer of the first
\* instance, and one in which its timer fires
OwnChanged ==
    \/ isRunning' # isRunning
    \/ intervalId' # intervalId
    \/ OwnTimers(timers') # OwnTimers(timers)

OwnTickStep ==
    /\ intervalId # NULL /\ intervalId' = intervalId
    /\ OwnTimers(timers') # OwnTimers(timers)

\* the same of the second instance
PeerChanged ==
    \/ peer' # peer
    \/ PeerTimers(timers') # PeerTimers(timers)

PeerTickStep ==
    /\ peer.intervalId # NULL /\ peer'.intervalId = peer.intervalId
    /\ PeerTimers(timers') # PeerTimers(timers)

\* C27: two instances bound to different targets share no scheduling
\* state: no step changes the flag, the handle or the timer of both; a
\* tick of an instance that has nothing in flight begins an invocation
\* whatever the other has in flight; the timer of an instance stays armed
\* as long as its own handle is set, whatever stop() does on the other.
C27_InstancesIndependent ==
    /\ [][ ~(OwnChanged /\ PeerChanged) ]_vars
    /\ [][ (OwnTickStep /\ ~isRunning) =>
              /\ isRunning' /\ console' = <<"starting">>
              /\ pending' = Append(pending, [sentAt |-> now, target |-> codebasePath]) ]_vars
    /\ [][ (PeerTickStep /\ ~peer.isRunning) =>
              /\ peer'.isRunning /\ console' = <<"starting">>
              /\ pending' = Append(pending, [sentAt |-> now, target |-> peer.codebasePath]) ]_vars
    /\ [](program = "script" =>
             /\ peer.intervalId # NULL =>
                   \E t \in PeerTimers(timers) : t.id = peer.intervalId
             /\ intervalId # NULL =>
                   \E t \in OwnTimers(timers) : t.id = intervalId)

\* a tick of the first instance has just begun an invocation while the
\* second instance, its timer armed, has one in flight
C27_Witness ==
    /\ program = "script"
    /\ now >= 1
    /\ peer.isRunning /\ peer.intervalId # NULL
    /\ isRunning /\ intervalId # NULL
    /\ console = <<"starting">>
    /\ Len(pending) = 2
    /\ pending[1].target = peer.codebasePath
    /\ pending[2] = [sentAt |-> now, target |-> codebasePath]

\* a step in which a periodic request of the hook settles
HookPeriodicSettleStep ==
    /\ program = "app"
    /\ \E q \in BagToSet(hpending) :
          /\ q.kind = "periodic"
          /\ hpending' = hpending (-) SetToBag({q})

\* C28: in the hook a failed periodic invocation changes no application
\* state: error, isContextGathered, codebasePath, isLoading and chatHistory
\* are as they were, so no error banner appears.  (A periodic invocation
\* that does not fail changes nothing but isContextGathered, which it sets.)
C28_PeriodicFailureIsSilent ==
    /\ [][ (HookPeriodicSettleStep /\ Has("failed", hconsole')) =>
              /\ state'.error = state.error
              /\ state'.isContextGathered = state.isContextGathered
              /\ state'.codebasePath = state.codebasePath
              /\ state'.isLoading = state.isLoading
              /\ state'.chatHistory = state.chatHistory ]_vars
    /\ [][ HookPeriodicSettleStep =>
              \/ state' = state
              \/ /\ state' = [state EXCEPT !.isContextGathered = TRUE]
                 /\ Has("completed", hconsole') ]_vars

\* the mounted hook has just reported a failed periodic invocation and the
\* page shows no error
C28_Witness ==
    /\ program = "app"
    /\ route = "/chat"
    /\ Has("failed", hconsole)
    /\ ~isRunningRef
    /\ state.error = NoError
    /\ state.isContextGathered /\ ~state.isLoading

\* C29: the in-flight flag is always released: when every request settles
\* (answer, rejection or client timeout), an invocation in flight is
\* followed by a state in which the flag is false, in the gatherer (as long
\* as no signal ends the process) and in the hook; the step in which the
\* request settles releases the flag whatever the outcome, a failure raised
\* while the answer is reported included.
C29_FlagAlwaysReleased ==
    /\ (program = "script" /\ isRunning /\ ~exited) ~> (~isRunning \/ exited)
    /\ (program = "app" /\ isRunningRef) ~> ~isRunningRef
    /\ [][ ScriptSettleStep => ~isRunning' ]_vars
    /\ [][ HookLiveSettleStep => ~isRunningRef' ]_vars

\* the mounted hook has reported a failure and its flag is released
C29_Witness ==
    /\ program = "app"
    /\ route = "/chat"
    /\ hconsole = <<"failed">>
    /\ ~isRunningRef
    /\ LivePeriodic = 0
    /\ intervalRef # NULL

\* a step in which a timer of the hook fires and its callback issues a request
HookTickRequestStep ==
    /\ program = "app"
    /\ htimers' # htimers
    /\ UNCHANGED <<state, route, intervalRef>>
    /\ BagCardinality(hpending') > BagCardinality(hpending)

\* C30: in the hook every request issued by a timer tick carries the target
\* that is in the reducer state at that time: an armed timer is bound to
\* the current codebasePath and is the only one, a step that changes
\* codebasePath leaves no timer bound to the former target, and the request
\* a tick adds is one for the current target.
C30_TickCarriesCurrentTarget ==
    /\ [](program = "app" =>
             /\ Cardinality(htimers) <= 1
             /\ \A t \in htimers : t.cb = state.codebasePath /\ t.id = intervalRef)
    /\ [][ (program = "app" /\ state'.codebasePath # state.codebasePath) =>
              \A t \in htimers' : t.cb # state.codebasePath ]_vars
    /\ [][ HookTickRequestStep =>
              hpending' = hpending (+) SetToBag({[target |-> state.codebasePath,
                                                  kind |-> "periodic",
                                                  live |-> TRUE]}) ]_vars

\* the target has changed from /a to /b: a request a tick issued for /a is
\* still outstanding, and a tick of the timer armed since has issued one for /b
C30_Witness ==
    /\ program = "app"
    /\ route = "/chat"
    /\ state.codebasePath = "/b"
    /\ \E t \in htimers : /\ t.cb = "/b"
                          /\ t.armedAt + CONTEXT_GATHER_INTERVAL = now
                          /\ t.due = now + CONTEXT_GATHER_INTERVAL
    /\ hconsole = <<"starting">>
    /\ BagIn([target |-> "/a", kind |-> "periodic", live |-> FALSE], hpending)
    /\ BagIn([target |-> "/b", kind |-> "periodic", live |-> TRUE], hpending)

\* a step in which the timer of the mounted hook fires
HookTickStep ==
    /\ program = "app"
    /\ htimers' # htimers
    /\ UNCHANGED <<state, route, intervalRef, navTimers>>
    /\ BagCardinality(hpending') >= BagCardinality(hpending)

\* a periodic request issued for another target than the current one is
\* still outstanding
FormerTargetInFlight ==
    \E q \in BagToSet(hpending) :
        q.kind = "periodic" /\ q.target # state.codebasePath

\* C31: after the target has changed the schedule of the new target has its
\* own guard: the flag of the mounted hook is set only while a request it
\* issued itself for the current target is outstanding, and a tick that
\* finds a request for the former target still in flight is skipped only
\* for such a request of its own; otherwise it begins an invocation.
C31_NewTargetOwnGuard ==
    /\ [](program = "app" =>
             (isRunningRef =>
                 BagIn([target |-> state.codebasePath, kind |-> "periodic",
                        live |-> TRUE], hpending)))
    /\ [][ (HookTickStep /\ FormerTargetInFlight /\ ~isRunningRef) =>
              /\ isRunningRef'
              /\ hconsole' = <<"starting">>
              /\ hpending' = hpending (+) SetToBag({[target |-> state.codebasePath,
                                                      kind |-> "periodic",
                                                      live |-> TRUE]}) ]_vars

\* the timer armed for the new target has just fired and begun an
\* invocation while a request for the former target is outstanding
C31_Witness ==
    /\ program = "app"
    /\ route = "/chat"
    /\ FormerTargetInFlight
    /\ isRunningRef
    /\ hconsole = <<"starting">>
    /\ \E t \in htimers : t.id = intervalRef /\ t.due = now + t.period /\ t.armedAt < now

\* C32: dispatching an action unrelated to scheduling (here SET_THEME)
\* while the hook's timer is armed leaves the timer armed with its next
\* firing time unchanged.
C32_UnrelatedDispatchKeepsTimer ==
    [][ (program = "app" /\ state'.theme # state.theme /\ intervalRef # NULL) =>
           UNCHANGED <<htimers, intervalRef>> ]_vars

\* C33: in every reachable state of the application isContextGathered
\* implies a non-empty codebasePath; in particular after RESET_STATE both
\* stay cleared although a request in flight at the reset completes later.
C33_GatheredImpliesTarget ==
    program = "app" => (state.isContextGathered => state.codebasePath # "")

\* C34: the one-shot synchronization sets isContextGathered and schedules
\* the navigation to the chat page only when the answer has statuscode 200;
\* on a thrown error or any other answer it sets state.error to a message,
\* leaves isContextGathered as it was and schedules no navigation; either
\* way isLoading is false once the call has completed.
C34_SetupOutcome ==
    [][ \A q \in BagToSet(hpending), o \in Outcomes :
           SetupPage_settle(q, o) =>
               /\ ~state'.isLoading
               /\ route' = route
               /\ IF o = "ok200"
                  THEN /\ state'.isContextGathered
                       /\ navTimers' = navTimers + 1
                       /\ state'.error = state.error
                  ELSE /\ state'.error # NoError
                       /\ state'.isContextGathered = state.isContextGathered
                       /\ navTimers' = navTimers ]_vars

\* a one-shot synchronization has failed on the setup page: an error is
\* shown, nothing is gathered, no navigation is scheduled
C34_Witness ==
    /\ program = "app"
    /\ route = "/setup"
    /\ hconsole = <<"setup response failed">>
    /\ state.error # NoError
    /\ ~state.isContextGathered
    /\ ~state.isLoading
    /\ state.codebasePath # ""
    /\ navTimers = 0

\* the one-shot requests in flight
SetupInFlight ==
    BagCardinality([q \in {r \in BagToSet(hpending) : r.kind = "setup"}
                      |-> CopiesIn(q, hpending)])

\* C35: at most one one-shot synchronization is in flight at any time, and
\* state.isLoading is true exactly while one is in flight.
C35_OneSetupInFlight ==
    program = "app" =>
        /\ SetupInFlight <= 1
        /\ state.isLoading <=> (SetupInFlight = 1)

\* (the first half of C35 alone)
C35_TwoSetupsInFlight ==
    /\ program = "app"
    /\ SetupInFlight = 2
    /\ state.isLoading

\* the field a reducer action names
NamedField(type) ==
    CASE type = "SET_THEME" -> "theme"
      [] type = "SET_CODEBASE_PATH" -> "codebasePath"
      [] type = "SET_CONTEXT_GATHERED" -> "isContextGathered"
      [] type = "SET_LOADING" -> "isLoading"
      [] type = "SET_ERROR" -> "error"
      [] type = "ADD_CHAT_MESSAGE" -> "chatHistory"
      [] type = "CLEAR_CHAT_HISTORY" -> "chatHistory"

\* C36: RESET_STATE restores every field to its initial value except theme,
\* which it keeps; every other action changes the one field it names (to the
\* payload, the history extended by the payload, or the empty history) and
\* no other field; an unknown action type leaves the state unchanged.
C36_ReducerFrame ==
    program = "app" =>
        \A a \in ReducerActions :
            LET n == appReducer(state, a)
            IN CASE a.type = "RESET_STATE" ->
                      /\ n.theme = state.theme
                      /\ n.codebasePath = "" /\ n.isContextGathered = FALSE
                      /\ n.isLoading = FALSE /\ n.error = NoError
                      /\ n.chatHistory = <<>>
                      /\ DOMAIN n = DOMAIN state
                 [] a.type = "UNKNOWN" -> n = state
                 [] OTHER ->
                      /\ DOMAIN n = DOMAIN state
                      /\ \A f \in DOMAIN state \ {NamedField(a.type)} : n[f] = state[f]
                      /\ n[NamedField(a.type)] =
                            CASE a.type = "ADD_CHAT_MESSAGE" ->
                                   state.chatHistory \o <<a.payload>>
                              [] a.type = "CLEAR_CHAT_HISTORY" -> <<>>
                              [] OTHER -> a.payload

\* a state the reducer has built in which no field has its initial value
C36_Witness ==
    /\ program = "app"
    /\ route = "/" /\ hpending = EmptyBag
    /\ state.theme = "dark"
    /\ state.codebasePath = "/a"
    /\ state.isContextGathered /\ state.isLoading
    /\ state.error # NoError
    /\ Len(state.chatHistory) = MaxHistory

IsReply(m) == m.type \in {"assistant", "error"}

\* C37: at most one user query is in flight; the history is a sequence of
\* user messages each followed by its reply, the last reply missing exactly
\* while the query is in flight; isSubmitting is false once the reply is
\* there; the history changes only by an append at its end; the reply is of
\* type assistant on statuscode 200 and of type error otherwise.
C37_ChatDiscipline ==
    /\ [](program = "app" =>
            LET h == state.chatHistory
            IN /\ QueriesInFlight <= 1
               /\ \A k \in 1..Len(h) :
                     IF k % 2 = 1 THEN h[k].type = "user" ELSE IsReply(h[k])
               /\ (Len(h) % 2 = 1) <=> (QueriesInFlight = 1)
               /\ (Len(h) % 2 = 0) => ~isSubmitting)
    /\ [][program = "app" =>
            /\ \/ state'.chatHistory = state.chatHistory
               \/ \E m \in ChatMessages :
                     state'.chatHistory = Append(state.chatHistory, m)
            /\ \A q \in BagToSet(hpending), o \in Outcomes :
                  ChatPage_settle(q, o) =>
                      state'.chatHistory[Len(state'.chatHistory)].type =
                          IF o = "ok200" THEN "assistant" ELSE "error"]_vars

\* a reply lands in a history that holds no user message
C37_ReplyWithoutQuestion ==
    /\ program = "app"
    /\ Len(state.chatHistory) > 0
    /\ IsReply(state.chatHistory[1])

\* two user queries in flight together
C37_TwoQueriesInFlight ==
    /\ program = "app"
    /\ QueriesInFlight = 2

====
